---- MODULE Spec2Model ----
(***************************************************************************)
(* FlashDraft ML bot service (src/src/backend/services/ml_bot_service.py). *)
(*                                                                         *)
(* The service is one MLBotService object whose loaded_models dictionary   *)
(* is shared by every caller.  Callers are threads; each thread runs one   *)
(* call at a time (predict_pick_value, get_pick_rankings, choose_pick) and *)
(* the steps of a call interleave with the steps of the other threads at   *)
(* the statements that read or write loaded_models.                        *)
(*                                                                         *)
(* Spec and SpecRank are the service under its callers.  SpecFn applies    *)
(* one function at a time (choose_pick, extract_features, the fallback,    *)
(* _apply_personality, the training of scripts/train_draft_bots.py) to     *)
(* arguments drawn from bounded sets.  SpecSingleton is get_ml_bot_service *)
(* under concurrent callers.  SpecRetry is one caller of                   *)
(* predict_pick_value over model files that are written after a failed     *)
(* load.  SpecImages is scripts/cache_images.py: runs of cache_set_images  *)
(* on one cache directory.                                                 *)
(*                                                                         *)
(* Scores are rationals held as integers in units of 1/Scale of a point.   *)
(* Personality parameters are held in tenths (skill_level, randomness,     *)
(* rare_bias) and hundredths (color_commitment).                           *)
(***************************************************************************)
EXTENDS Integers, Sequences, FiniteSets, TLC

\* ------------------------------------------------------------------ bounds
MaxCalls == 2
MaxCards == 2
\* cards of a pack given to choose_pick on its own
MaxRank == 4
\* calls of get_ml_bot_service
MaxGets == 3
\* runs of cache_set_images, and chunks of an image's body
MaxRuns == 2
MaxChunks == 2

\* One point of score is Scale units: 1000 for the tenths of rare_bias times
\* the hundredths of the skill adjustment, 3 for the thirds of a color match.
Scale == 1000 * 3

\* the concurrent callers of the one service object
Threads == {"t1", "t2"}

Max(a, b) == IF a >= b THEN a ELSE b
Min(a, b) == IF a <= b THEN a ELSE b

EmptyDict == [x \in {} |-> x]

\* d[k] = v on a dictionary held as a function
DictSet(d, k, v) == [x \in (DOMAIN d) \cup {k} |-> IF x = k THEN v ELSE d[x]]

\* d.get(k, default)
Get(d, k, default) == IF k \in DOMAIN d THEN d[k] ELSE default

\* ------------------------------------------------------- python values
\* A value of a card dictionary carries its Python type: n is the number of
\* an int or a float, s the characters of a str or the items of a list.
PyNone == [t |-> "NoneType", n |-> 0, s |-> << >>]
PyNum(n) == [t |-> "number", n |-> n, s |-> << >>]
PyStr(s) == [t |-> "str", n |-> 0, s |-> s]
PyList(l) == [t |-> "list", n |-> 0, s |-> l]

\* x == PyStr(s)
IsStr(x, s) == x.t = "str" /\ x.s = s

\* the characters of a str; any other value has no lower() and no "in" for
\* the substring tests made on it
TextOf(x) == CASE x.t = "str" -> x.s

\* ------------------------------------------------------------------ text
\* A str is a sequence of characters; lower() maps the capitals used here.
Lower(c) ==
    CASE c = "A" -> "a" [] c = "C" -> "c" [] c = "D" -> "d" [] c = "E" -> "e"
      [] c = "I" -> "i" [] c = "L" -> "l" [] c = "S" -> "s" [] c = "X" -> "x"
      [] OTHER -> c

StrLower(s) == [i \in 1..Len(s) |-> Lower(s[i])]

\* word in text (substring test)
Contains(text, word) ==
    \E i \in 0..(Len(text) - Len(word)) :
        \A j \in 1..Len(word) : text[i + j] = word[j]

W_creature == <<"c","r","e","a","t","u","r","e">>
W_instant == <<"i","n","s","t","a","n","t">>
W_sorcery == <<"s","o","r","c","e","r","y">>
W_enchantment == <<"e","n","c","h","a","n","t","m","e","n","t">>
W_artifact == <<"a","r","t","i","f","a","c","t">>
W_land == <<"l","a","n","d">>
W_destroy == <<"d","e","s","t","r","o","y">>
W_exile == <<"e","x","i","l","e">>
W_damage == <<"d","a","m","a","g","e">>
W_counter == <<"c","o","u","n","t","e","r">>
S_common == <<"c","o","m","m","o","n">>
S_uncommon == <<"u","n","c","o","m","m","o","n">>
S_rare == <<"r","a","r","e">>
S_mythic == <<"m","y","t","h","i","c">>

\* ------------------------------------------------------------------ cards
\* Card dictionaries as the callers pass them (Scryfall fields).
CardDb(id) ==
    CASE id = "dragon" ->
           [cmc |-> PyNum(6), rarity |-> PyStr(S_mythic),
            type_line |-> PyStr(<<"C","r","e","a","t","u","r","e">>),
            oracle_text |-> PyStr(<<"d","e","a","l","s"," ","D","a","m","a","g","e">>),
            power |-> PyStr(<<"6">>), toughness |-> PyStr(<<"6">>),
            color_identity |-> PyList(<<"R">>)]
      [] id = "bolt" ->
           [cmc |-> PyNum(1), rarity |-> PyStr(S_common),
            type_line |-> PyStr(<<"I","n","s","t","a","n","t">>),
            oracle_text |-> PyStr(<<"3"," ","d","a","m","a","g","e">>),
            color_identity |-> PyList(<<"R">>)]
      [] id = "plains" ->
           [cmc |-> PyNum(0), rarity |-> PyStr(S_common),
            type_line |-> PyStr(<<"L","a","n","d">>),
            oracle_text |-> PyStr(<<"t","a","p">>),
            color_identity |-> PyList(<< >>)]

CardIds == {"dragon", "plains"}

\* ------------------------------------------------------ personality table
\* skill_level, randomness, rare_bias in tenths; color_commitment in hundredths.
BOT_PERSONALITIES ==
    [bronze |-> [name |-> "Bronze Bot", skill_level |-> 3, randomness |-> 4,
                 rare_bias |-> 15, color_commitment |-> 50],
     silver |-> [name |-> "Silver Bot", skill_level |-> 5, randomness |-> 3,
                 rare_bias |-> 12, color_commitment |-> 70],
     gold   |-> [name |-> "Gold Bot", skill_level |-> 7, randomness |-> 2,
                 rare_bias |-> 10, color_commitment |-> 85],
     mythic |-> [name |-> "Mythic Bot", skill_level |-> 9, randomness |-> 1,
                 rare_bias |-> 9, color_commitment |-> 95]]

\* The table is module-level configuration.  A deployment runs with the table
\* as shipped or with a profile of perfect skill (skill_level 1.0).
PerfectSkill == [BOT_PERSONALITIES EXCEPT !["gold"].skill_level = 10]

PersonalityTables == {BOT_PERSONALITIES, PerfectSkill}

\* ------------------------------------------------------ feature extractor
\* The columns in the order extract_features appends them.
ServiceFeatureOrder ==
    <<"cmc", "is_creature", "is_instant", "is_sorcery", "is_enchantment",
      "is_artifact", "is_land", "rarity_score", "power_num", "toughness_num",
      "num_colors">>

\* rarity_map.get(rarity, 1)
rarity_map(rarity) ==
    IF IsStr(rarity, S_common) THEN 1
    ELSE IF IsStr(rarity, S_uncommon) THEN 2
    ELSE IF IsStr(rarity, S_rare) THEN 3
    ELSE IF IsStr(rarity, S_mythic) THEN 4
    ELSE 1

Indicator(word, type_line) == IF Contains(type_line, word) THEN 1 ELSE 0

Digits == {"0", "1", "2", "3", "4", "5", "6", "7", "8", "9"}

DigitVal(c) ==
    CASE c = "0" -> 0 [] c = "1" -> 1 [] c = "2" -> 2 [] c = "3" -> 3 [] c = "4" -> 4
      [] c = "5" -> 5 [] c = "6" -> 6 [] c = "7" -> 7 [] c = "8" -> 8 [] c = "9" -> 9

RECURSIVE DecimalVal(_)
DecimalVal(s) ==
    IF s = << >> THEN 0
    ELSE 10 * DecimalVal(SubSeq(s, 1, Len(s) - 1)) + DigitVal(s[Len(s)])

\* float(x): a number as it is, a str of decimal digits parsed, any other
\* str ValueError, None or a list TypeError
PyFloat(x) ==
    IF x.t = "number" THEN [exc |-> "none", value |-> x.n]
    ELSE IF x.t = "str"
    THEN IF x.s # << >> /\ \A i \in 1..Len(x.s) : x.s[i] \in Digits
         THEN [exc |-> "none", value |-> DecimalVal(x.s)]
         ELSE [exc |-> "ValueError", value |-> 0]
    ELSE [exc |-> "TypeError", value |-> 0]

\* try: float(x) except (ValueError, TypeError): 0.0
FloatOrZero(x) == PyFloat(x).value

extract_features_reordered(card) ==
    LET cmc == PyFloat(Get(card, "cmc", PyNum(0)))
        type_line == Get(card, "type_line", PyStr(<< >>))
        color_identity == Get(card, "color_identity", PyList(<< >>))
    IN  IF cmc.exc # "none"
        THEN [status |-> "raised", exc |-> cmc.exc, value |-> << >>]
        ELSE IF type_line.t # "str"
        THEN [status |-> "raised", exc |-> "AttributeError", value |-> << >>]
        ELSE IF Get(card, "rarity", PyStr(S_common)).t = "list"
        THEN [status |-> "raised", exc |-> "TypeError", value |-> << >>]
        ELSE [status |-> "returned", exc |-> "none", value |->
                << cmc.value,
                   Indicator(W_creature, StrLower(type_line.s)),
                   Indicator(W_instant, StrLower(type_line.s)),
                   Indicator(W_sorcery, StrLower(type_line.s)),
                   Indicator(W_enchantment, StrLower(type_line.s)),
                   Indicator(W_artifact, StrLower(type_line.s)),
                   Indicator(W_land, StrLower(type_line.s)),
                   rarity_map(Get(card, "rarity", PyStr(S_common))),
                   FloatOrZero(Get(card, "toughness", PyNum(0))),
                   FloatOrZero(Get(card, "power", PyNum(0))),
                   IF color_identity.t = "list" THEN Len(color_identity.s) ELSE 0 >>]

\* how extract_features ends: the vector it returns or the exception that
\* leaves it
extract_features(card) ==
    LET cmc == PyFloat(Get(card, "cmc", PyNum(0)))
        type_line == Get(card, "type_line", PyStr(<< >>))
        color_identity == Get(card, "color_identity", PyList(<< >>))
    IN  IF cmc.exc # "none"
        THEN [status |-> "raised", exc |-> cmc.exc, value |-> << >>]
        ELSE IF type_line.t # "str"
        THEN [status |-> "raised", exc |-> "AttributeError", value |-> << >>]
        ELSE IF Get(card, "rarity", PyStr(S_common)).t = "list"
        THEN [status |-> "raised", exc |-> "TypeError", value |-> << >>]
        ELSE [status |-> "returned", exc |-> "none", value |->
                << cmc.value,
                   Indicator(W_creature, StrLower(type_line.s)),
                   Indicator(W_instant, StrLower(type_line.s)),
                   Indicator(W_sorcery, StrLower(type_line.s)),
                   Indicator(W_enchantment, StrLower(type_line.s)),
                   Indicator(W_artifact, StrLower(type_line.s)),
                   Indicator(W_land, StrLower(type_line.s)),
                   rarity_map(Get(card, "rarity", PyStr(S_common))),
                   FloatOrZero(Get(card, "power", PyNum(0))),
                   FloatOrZero(Get(card, "toughness", PyNum(0))),
                   IF color_identity.t = "list" THEN Len(color_identity.s) ELSE 0 >>]

\* ------------------------------------------------------------- artifacts
\* The columns create_training_data fits the scaler on.
feature_cols(has_pick_rating) ==
    ServiceFeatureOrder \o
    (IF has_pick_rating THEN <<"pick_rate", "win_rate_delta">> ELSE << >>)

\* The same columns written in another order by another training run.
PermutedOrder ==
    <<"is_creature", "cmc">> \o SubSeq(ServiceFeatureOrder, 3, Len(ServiceFeatureOrder))

\* What the file {set_code}/{bot_personality}_bot.pkl holds.
FileKinds == {"missing", "corrupt", "unusable", "good", "permuted", "wider"}

\* pickle.load of a readable file: the personality bundle create_bot_personalities
\* builds, or (unusable) some other object that unpickles without the bundle's keys.
\* obj is the identity of the object this load created, kind the file it came from.
Unpickle(kind, bot_id, obj) ==
    IF kind = "unusable"
    THEN [id |-> bot_id, obj |-> obj, kind |-> kind]
    ELSE [id |-> bot_id, obj |-> obj, kind |-> kind,
          base_model |-> "model",
          scaler |-> [columns |->
                        CASE kind = "good" -> feature_cols(FALSE)
                          [] kind = "wider" -> feature_cols(TRUE)
                          [] kind = "permuted" -> PermutedOrder],
          config |-> Get(BOT_PERSONALITIES, bot_id, BOT_PERSONALITIES["silver"])]

\* StandardScaler.transform rejects a matrix whose number of columns is not
\* the number it was fitted on (ValueError); it cannot see the column order.
ScalerAccepts(scaler, features) == Len(features) = Len(scaler.columns)

\* What model.predict can return, in points: below 0, inside and above 100.
ModelOutputs == {-20, 50, 130}

\* np.random.normal(0, sigma) is sigma times a standard normal draw z.
NormalDraws == {-3, 0, 3}

\* random.uniform(-10, 10), in points.
UniformDraws == {-10, 0, 10}

\* a draw that can return 1.0
InclusiveDraws == 0..10

\* random.random(), in tenths: 0.0 .. 0.9
RandomDraws == 0..9

\* ------------------------------------------------------------- scoring
ClipLowerOnly(x) == Max(0, x)

\* np.clip(x, 0, 100)
Clip(x) == Min(100 * Scale, Max(0, x))

ToSet(seq) == {seq[i] : i \in 1..Len(seq)}

apply_personality_without_bias(base_score, card, config, context, z) ==
    LET skill_level == config.skill_level
        optimal_adjustment ==
            ((100 * Scale - base_score) * (10 - skill_level) * 3) \div 100
        s1 == base_score + optimal_adjustment
        rarity == Get(card, "rarity", PyNone)
        s2 == IF IsStr(rarity, S_rare) \/ IsStr(rarity, S_mythic)
              THEN s1
              ELSE s1
        noise == z * config.randomness * 2 * Scale
        s3 == s2 + noise
        color_identity == Get(card, "color_identity", PyList(<< >>))
        card_colors == CASE color_identity.t \in {"list", "str"} -> ToSet(color_identity.s)
        applies == /\ context # EmptyDict
                   /\ "picked_colors" \in DOMAIN context
                   /\ context.picked_colors # {}
                   /\ card_colors # {}
        commitment_bonus ==
            (Cardinality(context.picked_colors \cap card_colors)
               * config.color_commitment * Scale) \div (Cardinality(card_colors) * 10)
    IN  IF applies THEN s3 + commitment_bonus ELSE s3

apply_personality_bias_last(base_score, card, config, context, z) ==
    LET skill_level == config.skill_level
        optimal_adjustment ==
            ((100 * Scale - base_score) * (10 - skill_level) * 3) \div 100
        s1 == base_score + optimal_adjustment
        rarity == Get(card, "rarity", PyNone)
        noise == z * config.randomness * 2 * Scale
        s2 == s1 + noise
        s3 == IF IsStr(rarity, S_rare) \/ IsStr(rarity, S_mythic)
              THEN (s2 * config.rare_bias) \div 10
              ELSE s2
        color_identity == Get(card, "color_identity", PyList(<< >>))
        card_colors == CASE color_identity.t \in {"list", "str"} -> ToSet(color_identity.s)
        applies == /\ context # EmptyDict
                   /\ "picked_colors" \in DOMAIN context
                   /\ context.picked_colors # {}
                   /\ card_colors # {}
        commitment_bonus ==
            (Cardinality(context.picked_colors \cap card_colors)
               * config.color_commitment * Scale) \div (Cardinality(card_colors) * 10)
    IN  IF applies THEN s3 + commitment_bonus ELSE s3

apply_personality_picked_ratio(base_score, card, config, context, z) ==
    LET skill_level == config.skill_level
        optimal_adjustment ==
            ((100 * Scale - base_score) * (10 - skill_level) * 3) \div 100
        s1 == base_score + optimal_adjustment
        rarity == Get(card, "rarity", PyNone)
        s2 == IF IsStr(rarity, S_rare) \/ IsStr(rarity, S_mythic)
              THEN (s1 * config.rare_bias) \div 10
              ELSE s1
        noise == z * config.randomness * 2 * Scale
        s3 == s2 + noise
        color_identity == Get(card, "color_identity", PyList(<< >>))
        card_colors == CASE color_identity.t \in {"list", "str"} -> ToSet(color_identity.s)
        applies == /\ context # EmptyDict
                   /\ "picked_colors" \in DOMAIN context
                   /\ context.picked_colors # {}
                   /\ card_colors # {}
        commitment_bonus ==
            (Cardinality(context.picked_colors \cap card_colors)
               * config.color_commitment * Scale) \div (Cardinality(context.picked_colors) * 10)
    IN  IF applies THEN s3 + commitment_bonus ELSE s3

\* _apply_personality with the normal draw z
apply_personality(base_score, card, config, context, z) ==
    LET skill_level == config.skill_level
        optimal_adjustment ==
            ((100 * Scale - base_score) * (10 - skill_level) * 3) \div 100
        s1 == base_score + optimal_adjustment
        rarity == Get(card, "rarity", PyNone)
        s2 == IF IsStr(rarity, S_rare) \/ IsStr(rarity, S_mythic)
              THEN (s1 * config.rare_bias) \div 10
              ELSE s1
        noise == z * config.randomness * 2 * Scale
        s3 == s2 + noise
        color_identity == Get(card, "color_identity", PyList(<< >>))
        card_colors == CASE color_identity.t \in {"list", "str"} -> ToSet(color_identity.s)
        applies == /\ context # EmptyDict
                   /\ "picked_colors" \in DOMAIN context
                   /\ context.picked_colors # {}
                   /\ card_colors # {}
        commitment_bonus ==
            (Cardinality(context.picked_colors \cap card_colors)
               * config.color_commitment * Scale) \div (Cardinality(card_colors) * 10)
    IN  IF applies THEN s3 + commitment_bonus ELSE s3

\* rarity_scores.get(rarity, 40)
rarity_scores(rarity) ==
    IF IsStr(rarity, S_common) THEN 40
    ELSE IF IsStr(rarity, S_uncommon) THEN 55
    ELSE IF IsStr(rarity, S_rare) THEN 70
    ELSE IF IsStr(rarity, S_mythic) THEN 85
    ELSE 40

personality_multipliers_silver_default(bot_personality) ==
    CASE bot_personality = "bronze" -> 8 [] bot_personality = "silver" -> 9
      [] bot_personality = "gold" -> 10 [] bot_personality = "mythic" -> 11
      [] OTHER -> 9

\* in tenths
personality_multipliers(bot_personality) ==
    CASE bot_personality = "bronze" -> 8 [] bot_personality = "silver" -> 9
      [] bot_personality = "gold" -> 10 [] bot_personality = "mythic" -> 11
      [] OTHER -> 10

\* the score _fallback_evaluation holds before its final clip, with the
\* uniform draw u
fallback_score(card, bot_personality, u) ==
    LET s0 == rarity_scores(Get(card, "rarity", PyStr(S_common)))
        s1 == IF Contains(StrLower(TextOf(Get(card, "type_line", PyStr(<< >>)))), W_creature)
              THEN s0 + 5 ELSE s0
        oracle_text == StrLower(TextOf(Get(card, "oracle_text", PyStr(<< >>))))
        s2 == IF \E word \in {W_destroy, W_exile, W_damage, W_counter} :
                     Contains(oracle_text, word)
              THEN s1 + 10 ELSE s1
    IN  (s2 * personality_multipliers(bot_personality) * Scale) \div 10 + u * Scale

fallback_evaluation(card, bot_personality, u) ==
    Clip(fallback_score(card, bot_personality, u))

\* --------------------------------------------------------------- ranking
\* list.sort(key=score, reverse=True) is stable: of two entries with equal
\* scores the one appended first stays first.  An entry is <<index, score>>.
RECURSIVE InsertUnstable(_, _)
InsertUnstable(sorted, x) ==
    IF sorted = << >> THEN <<x>>
    ELSE IF Head(sorted)[2] > x[2]
         THEN <<Head(sorted)>> \o InsertUnstable(Tail(sorted), x)
         ELSE <<x>> \o sorted

RECURSIVE InsertDesc(_, _)
InsertDesc(sorted, x) ==
    IF sorted = << >> THEN <<x>>
    ELSE IF Head(sorted)[2] >= x[2]
         THEN <<Head(sorted)>> \o InsertDesc(Tail(sorted), x)
         ELSE <<x>> \o sorted

RECURSIVE SortDesc(_)
SortDesc(rankings) ==
    IF rankings = << >> THEN << >>
    ELSE InsertDesc(SortDesc(SubSeq(rankings, 1, Len(rankings) - 1)),
                    rankings[Len(rankings)])

personality_config_gold_default(table, bot_personality) ==
    Get(table, bot_personality, table["gold"])

\* BOT_PERSONALITIES.get(bot_personality, BOT_PERSONALITIES['silver'])
personality_config(table, bot_personality) ==
    Get(table, bot_personality, table["silver"])

\* choose_pick on non-empty rankings under one draw r of random.random() and
\* one draw choice_idx of random.choices: the branch taken and the index
\* returned
choose_pick_draw(rankings, config, r, choice_idx) ==
    IF r < config.skill_level
    THEN [status |-> "returned", branch |-> "top", value |-> rankings[1][1]]
    ELSE [status |-> "returned", branch |-> "weighted",
          value |-> rankings[choice_idx][1]]

choose_draws_uncapped(rankings, config) ==
    LET pick_range == Len(rankings)
        top == {rankings[1][1] : d \in {r \in RandomDraws : r < config.skill_level}}
        other == IF \E r \in RandomDraws : ~(r < config.skill_level)
                 THEN {rankings[choice_idx][1] : choice_idx \in 1..pick_range}
                 ELSE {}
    IN  {[status |-> "returned", value |-> v, exc |-> "none"] : v \in top \cup other}

\* choose_pick on non-empty rankings: the indices it can return over every
\* draw of random.random() and random.choices
choose_draws(rankings, config) ==
    LET pick_range == Min(3, Len(rankings))
        top == {rankings[1][1] : d \in {r \in RandomDraws : r < config.skill_level}}
        other == IF \E r \in RandomDraws : ~(r < config.skill_level)
                 THEN {rankings[choice_idx][1] : choice_idx \in 1..pick_range}
                 ELSE {}
    IN  {[status |-> "returned", value |-> v, exc |-> "none"] : v \in top \cup other}

choose_unguarded(rankings, config) ==
    IF rankings = << >>
    THEN {[status |-> "raised", value |-> 0, exc |-> "IndexError"]}
    ELSE choose_draws(rankings, config)

\* the outcomes of choose_pick once the rankings are sorted: the value
\* returned or the exception raised
choose_outcomes(rankings, config) ==
    IF rankings = << >>
    THEN {[status |-> "returned", value |-> 0, exc |-> "none"]}
    ELSE choose_draws(rankings, config)

\* the rankings get_pick_rankings builds from the scores of the cards, in
\* pack order
ranked(scores) == SortDesc([i \in 1..Len(scores) |-> <<i - 1, scores[i]>>])

\* ------------------------------------------------------------------ state
SetCodes == {"DTK"}
PersonalityIds == {"gold", "silver"}
Keys == SetCodes \X PersonalityIds

\* the draft context argument: None, or a dictionary with the picked colors
Contexts == {EmptyDict, [picked_colors |-> {"R"}]}

VARIABLES
    files,          \* what the model file of each key holds
    personalities,  \* the BOT_PERSONALITIES table of the service module
    loaded_models,  \* MLBotService.loaded_models: set_code -> personality -> model_data
    pc,             \* where each thread stands in its call
    frame,          \* the arguments and locals of each thread's call
    last,           \* how each thread's latest predict_pick_value ended
    result,         \* how each thread's latest call ended
    ncalls,         \* calls made so far
    nobjs,          \* objects unpickled so far
    fx,             \* one application of a function: its arguments and what it gave
    module,         \* the globals of the service module and its get_ml_bot_service callers
    images          \* the image cache directory and the run of scripts/cache_images.py

vars == <<files, personalities, loaded_models, pc, frame, last, result, ncalls, nobjs,
          fx, module, images>>

IdleFrame ==
    [op |-> "none", set_code |-> "none", bot_personality |-> "none",
     cards |-> << >>, context |-> EmptyDict, i |-> 0, rankings |-> << >>,
     file |-> "none", model_data |-> EmptyDict]

NoLast ==
    [status |-> "none", value |-> 0, clip |-> "none", path |-> "none", exc |-> "none",
     set_code |-> "none", bot_personality |-> "none", file |-> "none",
     artifact |-> "none", obj |-> 0]

NoResult ==
    [op |-> "none", status |-> "none", exc |-> "none", value |-> 0,
     set_code |-> "none", bot_personality |-> "none", cards |-> << >>,
     rankings |-> << >>, cached_after |-> FALSE]

Start ==
    /\ loaded_models = EmptyDict
    /\ pc = [t \in Threads |-> "idle"]
    /\ frame = [t \in Threads |-> IdleFrame]
    /\ last = [t \in Threads |-> NoLast]
    /\ result = [t \in Threads |-> NoResult]
    /\ ncalls = 0
    /\ nobjs = 0

\* the cards of the set file, in file order, and the sizes each card's
\* image_uris has
ImageCards == <<"c1", "c2", "c3">>

image_uris(card) ==
    CASE card = "c1" -> {"normal", "large"}
      [] card = "c2" -> {"normal"}
      [] OTHER -> {}

\* get_cached_path(card['id'], size), one path per card and size
ImagePaths == {<<"c1", "normal">>, <<"c1", "large">>, <<"c2", "normal">>}

\* the --sizes a run is given
SizeArgs == {<<"normal">>, <<"normal", "large">>}

NoImageResults == [p \in ImagePaths |-> "none"]

\* the cache directory as ImageCacheManager.__init__ creates it, no run of
\* cache_set_images made
NoImages ==
    [disk |-> [p \in ImagePaths |-> "absent"],
     before |-> [p \in ImagePaths |-> "absent"],
     runs |-> 0, force |-> FALSE, sizes |-> << >>, ci |-> 0, si |-> 0,
     at |-> "idle", left |-> 0, exc |-> "none", requested |-> {},
     results |-> NoImageResults, previous |-> NoImageResults]

\* no function applied on its own, the module's global not in use
NoApplication == [fn |-> "none"]
\* the service module as imported: _ml_bot_service is None (0), no
\* MLBotService created, no caller inside get_ml_bot_service
NoModule ==
    [ml_bot_service |-> 0, created |-> 0, returned |-> {}, ngets |-> 0,
     at |-> [t \in Threads |-> "idle"], new |-> [t \in Threads |-> 0]]
Aside == fx = NoApplication /\ module = NoModule /\ images = NoImages

\* the model files on disk: each key's file is any of the kinds, at most one
\* of them a file that is there but is not a bundle the service can use
FileConfigs ==
    {f \in [Keys -> FileKinds] :
        Cardinality({k \in Keys : f[k] \notin {"good", "missing"}}) <= 1}

\* the service as constructed, over the contents of the model files
Init ==
    /\ files \in FileConfigs
    /\ personalities = BOT_PERSONALITIES
    /\ Start
    /\ Aside

\* the service as constructed, with model files that load, do not load or are
\* not there, under either personality table
InitRank ==
    /\ files \in [Keys -> {"good", "corrupt", "missing"}]
    /\ personalities \in PersonalityTables
    /\ Start
    /\ Aside

\* set_code in loaded_models and bot_personality in loaded_models[set_code]
CachedIn(models, set_code, bot_personality) ==
    /\ set_code \in DOMAIN models
    /\ bot_personality \in DOMAIN models[set_code]

Cached(set_code, bot_personality) == CachedIn(loaded_models, set_code, bot_personality)

CardLists == UNION {[1..n -> CardIds] : n \in 0..MaxCards}

Key(t) == <<frame[t].set_code, frame[t].bot_personality>>

\* the card predict_pick_value is scoring
Card(t) == CardDb(frame[t].cards[frame[t].i + 1])

\* ------------------------------------------------------------ the calls
CallPredict(t) ==
    /\ pc[t] = "idle"
    /\ result[t] = NoResult
    /\ ncalls < MaxCalls
    /\ \E sc \in SetCodes, bp \in PersonalityIds, c \in CardIds, ctx \in Contexts :
         frame' = [frame EXCEPT ![t] =
                     [IdleFrame EXCEPT !.op = "predict", !.set_code = sc,
                                       !.bot_personality = bp, !.cards = <<c>>,
                                       !.context = ctx]]
    /\ pc' = [pc EXCEPT ![t] = "check"]
    /\ ncalls' = ncalls + 1
    /\ UNCHANGED <<fx, module, images, files, personalities, loaded_models, last, result, nobjs>>

\* get_pick_rankings or choose_pick: the loop of get_pick_rankings starts
CallRank(t) ==
    /\ pc[t] = "idle"
    /\ result[t] = NoResult
    /\ ncalls < MaxCalls
    /\ \E o \in {"rank", "choose"}, sc \in SetCodes, bp \in PersonalityIds,
          cs \in CardLists, ctx \in Contexts :
         /\ frame' = [frame EXCEPT ![t] =
                        [IdleFrame EXCEPT !.op = o, !.set_code = sc,
                                          !.bot_personality = bp, !.cards = cs,
                                          !.context = ctx]]
         /\ pc' = [pc EXCEPT ![t] = IF cs = << >> THEN "finish" ELSE "check"]
    /\ ncalls' = ncalls + 1
    /\ UNCHANGED <<fx, module, images, files, personalities, loaded_models, last, result, nobjs>>

\* service.invalidate(set_code, bot_personality): MLBotService defines no such
\* method, the attribute lookup raises and nothing changes
CallInvalidate(t) ==
    /\ pc[t] = "idle"
    /\ result[t] = NoResult
    /\ ncalls < MaxCalls
    /\ \E sc \in SetCodes, bp \in PersonalityIds :
         result' = [result EXCEPT ![t] =
                      [NoResult EXCEPT !.op = "invalidate", !.status = "raised",
                                       !.exc = "AttributeError", !.set_code = sc,
                                       !.bot_personality = bp,
                                       !.cached_after = Cached(sc, bp)]]
    /\ ncalls' = ncalls + 1
    /\ UNCHANGED <<fx, module, images, files, personalities, loaded_models, pc, frame, last, nobjs>>

\* the caller takes what its call returned or raised and is free to call again
TakeResult(t) ==
    /\ pc[t] = "idle"
    /\ result[t] # NoResult
    /\ result' = [result EXCEPT ![t] = NoResult]
    /\ last' = [last EXCEPT ![t] = NoLast]
    /\ UNCHANGED <<fx, module, images, files, personalities, loaded_models, pc, frame, ncalls, nobjs>>

\* ---------------------------------------------- how predict_pick_value ends
\* clip tells where the score stood before the final np.clip
LastOf(t, status, value, raw, path, exc, artifact, obj) ==
    [status |-> status, value |-> value,
     clip |-> IF status # "returned" THEN "none"
              ELSE IF raw < 0 THEN "below"
              ELSE IF raw > 100 * Scale THEN "above" ELSE "inside",
     path |-> path, exc |-> exc,
     set_code |-> frame[t].set_code, bot_personality |-> frame[t].bot_personality,
     file |-> frame[t].file, artifact |-> artifact, obj |-> obj]

\* predict_pick_value returns lst.value: to the caller, or to the loop of
\* get_pick_rankings, which appends (i, score) and goes on
Return(t, lst) ==
    /\ last' = [last EXCEPT ![t] = lst]
    /\ IF frame[t].op = "predict"
       THEN /\ result' = [result EXCEPT ![t] =
                            [NoResult EXCEPT !.op = "predict", !.status = "returned",
                                             !.value = lst.value,
                                             !.set_code = frame[t].set_code,
                                             !.bot_personality = frame[t].bot_personality,
                                             !.cards = frame[t].cards]]
            /\ pc' = [pc EXCEPT ![t] = "idle"]
            /\ frame' = [frame EXCEPT ![t] = IdleFrame]
       ELSE /\ frame' = [frame EXCEPT
                           ![t].rankings = Append(@, <<frame[t].i, lst.value>>),
                           ![t].i = @ + 1,
                           ![t].file = "none",
                           ![t].model_data = EmptyDict]
            /\ pc' = [pc EXCEPT ![t] =
                        IF frame[t].i + 1 < Len(frame[t].cards) THEN "check" ELSE "finish"]
            /\ UNCHANGED result

\* an exception leaves predict_pick_value and every caller above it
Raise(t, lst) ==
    /\ last' = [last EXCEPT ![t] = lst]
    /\ result' = [result EXCEPT ![t] =
                    [NoResult EXCEPT !.op = frame[t].op, !.status = "raised",
                                     !.exc = lst.exc,
                                     !.set_code = frame[t].set_code,
                                     !.bot_personality = frame[t].bot_personality,
                                     !.cards = frame[t].cards]]
    /\ pc' = [pc EXCEPT ![t] = "idle"]
    /\ frame' = [frame EXCEPT ![t] = IdleFrame]

\* load_bot_model returned False: return self._fallback_evaluation(card, bot_personality)
Fallback(t, why) ==
    \E u \in UniformDraws :
        Return(t, LastOf(t, "returned",
                         fallback_evaluation(Card(t), frame[t].bot_personality, u),
                         fallback_score(Card(t), frame[t].bot_personality, u),
                         "fallback", "none", why, 0))

\* ------------------------------------------------- predict_pick_value
\* line 119: is the model loaded?
Check(t) ==
    /\ pc[t] = "check"
    /\ pc' = [pc EXCEPT ![t] =
                IF Cached(frame[t].set_code, frame[t].bot_personality)
                THEN "read" ELSE "exists"]
    /\ UNCHANGED <<fx, module, images, files, personalities, loaded_models, frame, last, result, ncalls, nobjs>>

LoadMissingNegative(t) ==
    /\ pc[t] = "exists"
    /\ files[Key(t)] = "missing"
    /\ Fallback(t, "missing")
    /\ loaded_models' =
         DictSet(loaded_models, frame[t].set_code,
                 DictSet(Get(loaded_models, frame[t].set_code, EmptyDict),
                         frame[t].bot_personality,
                         [id |-> frame[t].bot_personality, obj |-> 0, kind |-> "missing"]))
    /\ UNCHANGED <<fx, module, images, files, personalities, ncalls, nobjs>>

\* load_bot_model, line 39: the file is not there
LoadMissing(t) ==
    /\ pc[t] = "exists"
    /\ files[Key(t)] = "missing"
    /\ Fallback(t, "missing")
    /\ UNCHANGED <<fx, module, images, files, personalities, loaded_models, ncalls, nobjs>>

\* load_bot_model, line 39: the file is there
LoadExists(t) ==
    /\ pc[t] = "exists"
    /\ files[Key(t)] # "missing"
    /\ pc' = [pc EXCEPT ![t] = "load"]
    /\ frame' = [frame EXCEPT ![t].file = files[Key(t)]]
    /\ UNCHANGED <<fx, module, images, files, personalities, loaded_models, last, result, ncalls, nobjs>>

\* load_bot_model, lines 43-45 and 55-57: pickle.load raises, the except
\* clause returns False
LoadCorrupt(t) ==
    /\ pc[t] = "load"
    /\ files[Key(t)] = "corrupt"
    /\ Fallback(t, "corrupt")
    /\ UNCHANGED <<fx, module, images, files, personalities, loaded_models, ncalls, nobjs>>

\* load_bot_model, lines 44-45: pickle.load returns a new object
LoadPickle(t) ==
    /\ pc[t] = "load"
    /\ files[Key(t)] # "corrupt"
    /\ nobjs' = nobjs + 1
    /\ frame' = [frame EXCEPT ![t].model_data =
                    Unpickle(files[Key(t)], frame[t].bot_personality, nobjs + 1)]
    /\ pc' = [pc EXCEPT ![t] = "checkset"]
    /\ UNCHANGED <<fx, module, images, files, personalities, loaded_models, last, result, ncalls>>

\* load_bot_model, line 48
CheckSet(t) ==
    /\ pc[t] = "checkset"
    /\ pc' = [pc EXCEPT ![t] =
                IF frame[t].set_code \notin DOMAIN loaded_models THEN "init" ELSE "store"]
    /\ UNCHANGED <<fx, module, images, files, personalities, loaded_models, frame, last, result, ncalls, nobjs>>

\* load_bot_model, line 49: self.loaded_models[set_code] = {}
InitSet(t) ==
    /\ pc[t] = "init"
    /\ loaded_models' = DictSet(loaded_models, frame[t].set_code, EmptyDict)
    /\ pc' = [pc EXCEPT ![t] = "store"]
    /\ UNCHANGED <<fx, module, images, files, personalities, frame, last, result, ncalls, nobjs>>

\* load_bot_model, lines 51-53: self.loaded_models[set_code][bot_personality] = model_data
Store(t) ==
    /\ pc[t] = "store"
    /\ loaded_models' =
         DictSet(loaded_models, frame[t].set_code,
                 DictSet(loaded_models[frame[t].set_code],
                         frame[t].bot_personality, frame[t].model_data))
    /\ pc' = [pc EXCEPT ![t] = "read"]
    /\ UNCHANGED <<fx, module, images, files, personalities, frame, last, result, ncalls, nobjs>>

\* line 124: the entry is not in loaded_models
ReadKeyError(t) ==
    /\ pc[t] = "read"
    /\ ~Cached(frame[t].set_code, frame[t].bot_personality)
    /\ Raise(t, LastOf(t, "raised", 0, 0, "model", "KeyError:loaded_models", "none", 0))
    /\ UNCHANGED <<fx, module, images, files, personalities, loaded_models, ncalls, nobjs>>

\* lines 124-143 with the entry in loaded_models
ReadScore(t) ==
    /\ pc[t] = "read"
    /\ Cached(frame[t].set_code, frame[t].bot_personality)
    /\ LET model_data == loaded_models[frame[t].set_code][frame[t].bot_personality]
           features == extract_features(Card(t))
       IN  IF ~({"base_model", "scaler", "config"} \subseteq DOMAIN model_data)
           THEN Raise(t, LastOf(t, "raised", 0, 0, "model", "KeyError:model_data",
                                model_data.kind, model_data.obj))
           ELSE IF features.status = "raised"
           THEN Raise(t, LastOf(t, "raised", 0, 0, "model", features.exc,
                                model_data.kind, model_data.obj))
           ELSE IF ~ScalerAccepts(model_data.scaler, features.value)
           THEN Raise(t, LastOf(t, "raised", 0, 0, "model", "ValueError:scaler",
                                model_data.kind, model_data.obj))
           ELSE \E base_score \in ModelOutputs, z \in NormalDraws :
                  LET adjusted_score ==
                          apply_personality(base_score * Scale, Card(t),
                                            model_data.config, frame[t].context, z)
                  IN  Return(t, LastOf(t, "returned", Clip(adjusted_score),
                                       adjusted_score, "model", "none",
                                       model_data.kind, model_data.obj))
    /\ UNCHANGED <<fx, module, images, files, personalities, loaded_models, ncalls, nobjs>>

\* get_pick_rankings, lines 227-230, and for choose_pick lines 242-256
Finish(t) ==
    /\ pc[t] = "finish"
    /\ LET rankings == SortDesc(frame[t].rankings)
           config == personality_config(personalities, frame[t].bot_personality)
           done == [NoResult EXCEPT !.op = frame[t].op, !.status = "returned",
                                    !.set_code = frame[t].set_code,
                                    !.bot_personality = frame[t].bot_personality,
                                    !.cards = frame[t].cards,
                                    !.rankings = rankings]
       IN  IF frame[t].op = "rank"
           THEN result' = [result EXCEPT ![t] = done]
           ELSE \E o \in choose_outcomes(rankings, config) :
                  result' = [result EXCEPT ![t] =
                               [done EXCEPT !.status = o.status, !.value = o.value,
                                            !.exc = o.exc]]
    /\ pc' = [pc EXCEPT ![t] = "idle"]
    /\ frame' = [frame EXCEPT ![t] = IdleFrame]
    /\ UNCHANGED <<fx, module, images, files, personalities, loaded_models, last, ncalls, nobjs>>

\* the steps of load_bot_model
LoadStep(t) ==
    \/ LoadMissing(t)
    \/ LoadExists(t)
    \/ LoadCorrupt(t)
    \/ LoadPickle(t)
    \/ CheckSet(t)
    \/ InitSet(t)
    \/ Store(t)

\* concurrent callers of predict_pick_value
Next ==
    \E t \in Threads :
        \/ CallPredict(t)
        \/ CallInvalidate(t)
        \/ TakeResult(t)
        \/ Check(t)
        \/ LoadStep(t)
        \/ ReadKeyError(t)
        \/ ReadScore(t)

Spec == Init /\ [][Next]_vars

\* one caller of get_pick_rankings and choose_pick; with no other caller the
\* entry line 51 stores is there when line 124 reads it
NextRank ==
    \/ CallRank("t1")
    \/ TakeResult("t1")
    \/ Check("t1")
    \/ LoadStep("t1")
    \/ ReadScore("t1")
    \/ Finish("t1")

SpecRank == InitRank /\ [][NextRank]_vars

\* ------------------------------------------------- a load tried again
\* scripts/train_draft_bots.py writes the bundle of a key whose load the
\* caller has just seen fail
InstallFile(t) ==
    /\ pc[t] = "idle"
    /\ last[t].path = "fallback"
    /\ last[t].artifact \in {"missing", "corrupt"}
    /\ files' = [files EXCEPT ![<<last[t].set_code, last[t].bot_personality>>] = "good"]
    /\ files' # files
    /\ UNCHANGED <<fx, module, images, personalities, loaded_models, pc, frame, last, result,
                   ncalls, nobjs>>

\* the service as constructed, no model file loading yet
InitRetry ==
    /\ files \in [Keys -> {"missing", "corrupt"}]
    /\ personalities = BOT_PERSONALITIES
    /\ Start
    /\ Aside

\* one caller of predict_pick_value, and the training script
NextRetry ==
    \/ CallPredict("t1")
    \/ TakeResult("t1")
    \/ Check("t1")
    \/ LoadStep("t1")
    \/ ReadScore("t1")
    \/ InstallFile("t1")

SpecRetry == InitRetry /\ [][NextRetry]_vars

\* ---------------------------------------------------- functions on their own
\* One application of one function of the service or of the training script
\* to arguments drawn from bounded sets; the service itself stays as
\* constructed.
service == <<files, personalities, loaded_models, pc, frame, last, result, ncalls, nobjs>>

Lists(S, n) == UNION {[1..k -> S] : k \in 0..n}

\* every personality config of either table
Configs == {tbl[p] : tbl \in PersonalityTables, p \in DOMAIN BOT_PERSONALITIES}

\* scores of the cards of a pack, as predict_pick_value returns them
PackScores == {0, 50 * Scale}

ChooseApplications ==
    {[fn |-> "choose_pick", scores |-> sc, config |-> c, done |-> FALSE,
      rankings |-> << >>, out |-> NoResult, possible |-> {}] :
        sc \in Lists(PackScores, MaxRank), c \in Configs}

\* get_pick_rankings then the selection of choose_pick, over scores already
\* predicted
ApplyChoose ==
    /\ fx.fn = "choose_pick" /\ ~fx.done
    /\ LET rankings == ranked(fx.scores)
       IN  \E o \in choose_outcomes(rankings, fx.config) :
             fx' = [fx EXCEPT !.done = TRUE, !.rankings = rankings, !.out = o,
                              !.possible = choose_outcomes(rankings, fx.config)]
    /\ UNCHANGED <<service, module, images>>

\* a key the card dictionary does not have
Absent == [t |-> "absent", n |-> 0, s |-> << >>]

\* the card dictionary with the keys that are there
MakeCard(fields) == [k \in {f \in DOMAIN fields : fields[f].t # "absent"} |-> fields[k]]

\* type lines, each with the type tags it names
TypeLines ==
    {[text |-> <<"A","r","t","i","f","a","c","t"," ","C","r","e","a","t","u","r","e">>,
      kinds |-> {"artifact", "creature"}],
     [text |-> <<"I","n","s","t","a","n","t">>,
      kinds |-> {"instant"}],
     [text |-> <<"S","o","r","c","e","r","y">>,
      kinds |-> {"sorcery"}],
     [text |-> <<"E","n","c","h","a","n","t","m","e","n","t">>,
      kinds |-> {"enchantment"}],
     [text |-> <<"L","a","n","d">>,
      kinds |-> {"land"}]}

CmcValues == {Absent, PyNone, PyNum(0), PyNum(3), PyStr(<<"2">>), PyStr(<<"X">>)}
TypeLineValues == {Absent, PyNone} \cup {PyStr(tl.text) : tl \in TypeLines}
RarityValues ==
    {Absent, PyNone, PyStr(S_common), PyStr(S_uncommon), PyStr(S_rare), PyStr(S_mythic),
     PyStr(<<"s","p","e","c","i","a","l">>)}
PowerValues == {Absent, PyNone, PyNum(2), PyStr(<<"6">>), PyStr(<<"1","2">>), PyStr(<<"*">>)}
ToughnessValues == {Absent, PyStr(<<"4">>), PyStr(<<"1","+","*">>)}
ColorValues ==
    {Absent, PyNone, PyStr(<<"R">>), PyList(<< >>), PyList(<<"R">>), PyList(<<"R", "G">>)}

\* the type tags a type_line value names
KindsOf(type_line) ==
    UNION {tl.kinds : tl \in {x \in TypeLines : IsStr(type_line, x.text)}}

ExtractApplications ==
    {[fn |-> "extract_features",
      card |-> MakeCard([cmc |-> c, type_line |-> tl, rarity |-> r, power |-> pw,
                         toughness |-> tg, color_identity |-> ci]),
      kinds |-> KindsOf(tl), done |-> FALSE,
      out |-> [status |-> "none", exc |-> "none", value |-> << >>]] :
        c \in CmcValues, tl \in TypeLineValues, r \in RarityValues,
        pw \in PowerValues, tg \in ToughnessValues, ci \in ColorValues}

ApplyExtract ==
    /\ fx.fn = "extract_features" /\ ~fx.done
    /\ fx' = [fx EXCEPT !.done = TRUE, !.out = extract_features(fx.card)]
    /\ UNCHANGED <<service, module, images>>

\* oracle texts, each with whether it names a removal keyword
OracleTexts ==
    {[text |-> <<"D","e","s","t","r","o","y"," ","i","t">>,
      removal |-> TRUE],
     [text |-> <<"E","x","i","l","e"," ","i","t">>,
      removal |-> TRUE],
     [text |-> <<"3"," ","D","a","m","a","g","e">>,
      removal |-> TRUE],
     [text |-> <<"C","o","u","n","t","e","r"," ","i","t">>,
      removal |-> TRUE],
     [text |-> <<"D","r","a","w"," ","a"," ","c","a","r","d">>,
      removal |-> FALSE]}

OracleTextValues == {Absent} \cup {PyStr(ot.text) : ot \in OracleTexts}

IsRemoval(oracle_text) == \E ot \in OracleTexts : ot.removal /\ IsStr(oracle_text, ot.text)

\* bot_personality arguments, one of them not a key of any table
PersonalityArgs == DOMAIN BOT_PERSONALITIES \cup {"platinum"}

FallbackApplications ==
    {[fn |-> "fallback_evaluation",
      card |-> MakeCard([type_line |-> tl, rarity |-> r, oracle_text |-> ot]),
      kinds |-> KindsOf(tl), removal |-> IsRemoval(ot),
      bot_personality |-> p, u |-> u, done |-> FALSE, out |-> 0] :
        tl \in TypeLineValues \ {PyNone}, r \in RarityValues,
        ot \in OracleTextValues, p \in PersonalityArgs, u \in UniformDraws}

\* predict_pick_value on a service with nothing cached and no model file on
\* disk: load_bot_model returns False and the fallback's score is returned
ApplyFallback ==
    /\ fx.fn = "fallback_evaluation" /\ ~fx.done
    /\ loaded_models = EmptyDict
    /\ \A k \in DOMAIN files : files[k] = "missing"
    /\ fx' = [fx EXCEPT !.done = TRUE,
                        !.out = fallback_evaluation(fx.card, fx.bot_personality, fx.u)]
    /\ UNCHANGED <<service, module, images>>

\* base scores a model can give, in points
BaseScores == ModelOutputs \cup {0, 100}

AdjustContexts ==
    {EmptyDict, [pick_number |-> {}], [picked_colors |-> {}], [picked_colors |-> {"R"}],
     [picked_colors |-> {"G", "W"}], [picked_colors |-> {"R", "G", "W"}]}

AdjustApplications ==
    {[fn |-> "apply_personality", base_score |-> b * Scale,
      card |-> MakeCard([rarity |-> r, color_identity |-> ci]),
      config |-> c, context |-> ctx, z |-> z, done |-> FALSE,
      out |-> 0, unbiased |-> 0, nocontext |-> 0] :
        b \in BaseScores, r \in {Absent, PyStr(S_common), PyStr(S_rare), PyStr(S_mythic)},
        ci \in ColorValues \ {PyNone, PyStr(<<"R">>)},
        c \in Configs, ctx \in AdjustContexts, z \in NormalDraws}

\* _apply_personality, and next to it the same application under a rare_bias
\* of 1.0 and the same application without a draft context
ApplyAdjust ==
    /\ fx.fn = "apply_personality" /\ ~fx.done
    /\ fx' = [fx EXCEPT
                 !.done = TRUE,
                 !.out = apply_personality(fx.base_score, fx.card, fx.config, fx.context, fx.z),
                 !.unbiased = apply_personality(fx.base_score, fx.card,
                                                [fx.config EXCEPT !.rare_bias = 10],
                                                fx.context, fx.z),
                 !.nocontext = apply_personality(fx.base_score, fx.card, fx.config,
                                                 EmptyDict, fx.z)]
    /\ UNCHANGED <<service, module, images>>

\* the 'features' list save_models writes to metadata.json
metadata_features ==
    <<"cmc", "is_creature", "is_instant", "is_sorcery", "is_enchantment",
      "is_artifact", "is_land", "rarity_score", "power_num", "toughness_num",
      "num_colors">>

\* columns the processed 17lands data may or may not carry
LandsColumns == {"pick_rating", "pick_rate", "win_rate_delta"}

TrainApplications ==
    {[fn |-> "train_set_bots", columns |-> cols, done |-> FALSE,
      out |-> [status |-> "none", exc |-> "none", scaler_columns |-> << >>,
               features |-> << >>]] :
        cols \in SUBSET LandsColumns}

\* train_set_bots from the merged data on: create_training_data selects the
\* feature columns (KeyError when one is not in the data, caught by
\* train_set_bots, which then saves nothing), train_base_model fits the scaler
\* on them, save_models writes the bundles and the metadata
ApplyTrain ==
    /\ fx.fn = "train_set_bots" /\ ~fx.done
    /\ LET cols == feature_cols("pick_rating" \in fx.columns)
           known == ToSet(ServiceFeatureOrder) \cup fx.columns
       IN  fx' = [fx EXCEPT
                    !.done = TRUE,
                    !.out = IF ToSet(cols) \subseteq known
                            THEN [status |-> "saved", exc |-> "none",
                                  scaler_columns |-> cols,
                                  features |-> metadata_features]
                            ELSE [status |-> "raised", exc |-> "KeyError",
                                  scaler_columns |-> << >>, features |-> << >>]]
    /\ UNCHANGED <<service, module, images>>

ChooseForApplications ==
    {[fn |-> "choose_pick_for", table |-> tbl, bot_personality |-> p, scores |-> sc,
      r |-> r, done |-> FALSE, rankings |-> << >>,
      out |-> [status |-> "none", branch |-> "none", value |-> 0]] :
        tbl \in PersonalityTables, p \in PersonalityArgs,
        sc \in Lists(PackScores, MaxRank) \ {<< >>}, r \in RandomDraws}

\* choose_pick from line 245 on, for a personality id and the table of the
\* module, over scores already predicted
ApplyChooseFor ==
    /\ fx.fn = "choose_pick_for" /\ ~fx.done
    /\ LET rankings == ranked(fx.scores)
           config == personality_config(fx.table, fx.bot_personality)
       IN  \E choice_idx \in 1..Min(3, Len(rankings)) :
             fx' = [fx EXCEPT !.done = TRUE, !.rankings = rankings,
                              !.out = choose_pick_draw(rankings, config, fx.r, choice_idx)]
    /\ UNCHANGED <<service, module, images>>

Applications ==
    ChooseApplications \cup ExtractApplications \cup FallbackApplications
        \cup AdjustApplications \cup TrainApplications \cup ChooseForApplications

InitFn ==
    /\ files = [k \in Keys |-> "missing"]
    /\ personalities = BOT_PERSONALITIES
    /\ Start
    /\ module = NoModule
    /\ images = NoImages
    /\ fx \in Applications

NextFn ==
    \/ ApplyChoose
    \/ ApplyExtract
    \/ ApplyFallback
    \/ ApplyAdjust
    \/ ApplyTrain
    \/ ApplyChooseFor

SpecFn == InitFn /\ [][NextFn]_vars

\* ------------------------------------------------------------ the singleton
\* get_ml_bot_service, called by the threads of the process; instances of
\* MLBotService are numbered in the order they are created.
GetCall(t) ==
    /\ module.at[t] = "idle"
    /\ module.ngets < MaxGets
    /\ module' = [module EXCEPT !.at[t] = "test", !.ngets = @ + 1]
    /\ UNCHANGED <<service, fx, images>>

\* if _ml_bot_service is None
GetTest(t) ==
    /\ module.at[t] = "test"
    /\ module' = [module EXCEPT
                     !.at[t] = IF module.ml_bot_service = 0 THEN "new" ELSE "return"]
    /\ UNCHANGED <<service, fx, images>>

\* MLBotService()
GetNew(t) ==
    /\ module.at[t] = "new"
    /\ module' = [module EXCEPT !.created = @ + 1, !.new[t] = module.created + 1,
                                !.at[t] = "assign"]
    /\ UNCHANGED <<service, fx, images>>

\* _ml_bot_service = <the new instance>
GetAssign(t) ==
    /\ module.at[t] = "assign"
    /\ module' = [module EXCEPT !.ml_bot_service = module.new[t], !.at[t] = "return"]
    /\ UNCHANGED <<service, fx, images>>

\* return _ml_bot_service
GetReturn(t) ==
    /\ module.at[t] = "return"
    /\ module' = [module EXCEPT !.returned = @ \cup {module.ml_bot_service},
                                !.new[t] = 0, !.at[t] = "idle"]
    /\ UNCHANGED <<service, fx, images>>

InitSingleton ==
    /\ files = [k \in Keys |-> "missing"]
    /\ personalities = BOT_PERSONALITIES
    /\ Start
    /\ Aside

NextSingleton ==
    \E t \in Threads :
        \/ GetCall(t)
        \/ GetTest(t)
        \/ GetNew(t)
        \/ GetAssign(t)
        \/ GetReturn(t)

SpecSingleton == InitSingleton /\ [][NextSingleton]_vars

\* ------------------------------------------------------------ image cache
\* scripts/cache_images.py: runs of cache_set_images over the cards of the
\* set file, one after the other, on one cache directory.  A file of the
\* directory is absent, partial (opened for writing, not all chunks written)
\* or whole.
ImagePath == <<ImageCards[images.ci], images.sizes[images.si]>>

\* main calls cache_set_images(set_code, sizes, force); lines 121-143
RunStart ==
    /\ images.at = "idle"
    /\ images.runs < MaxRuns
    /\ \E force \in BOOLEAN, sizes \in SizeArgs :
         images' = [images EXCEPT !.runs = @ + 1, !.force = force, !.sizes = sizes,
                                  !.ci = 1, !.si = 0, !.at = "card",
                                  !.before = images.disk, !.requested = {},
                                  !.previous = images.results,
                                  !.results = NoImageResults]
    /\ UNCHANGED <<service, fx, module>>

\* cache_set_images, lines 145-152 and 180: the next card of the set, skipped
\* when it has no image_uris
NextCard ==
    /\ images.at = "card"
    /\ images' =
         IF images.ci > Len(ImageCards)
         THEN [images EXCEPT !.at = "idle", !.ci = 0]
         ELSE IF image_uris(ImageCards[images.ci]) = {}
         THEN [images EXCEPT !.ci = @ + 1]
         ELSE [images EXCEPT !.at = "size", !.si = 1]
    /\ UNCHANGED <<service, fx, module>>

\* cache_card_images, lines 88-105 and 117: the next size of the card; a size
\* the card does not have is an error, a file that exists is reported as
\* cached, anything else is downloaded
NextSize ==
    /\ images.at = "size"
    /\ images' =
         IF images.si > Len(images.sizes)
         THEN [images EXCEPT !.at = "card", !.ci = @ + 1, !.si = 0]
         ELSE IF images.sizes[images.si] \notin image_uris(ImageCards[images.ci])
         THEN [images EXCEPT !.si = @ + 1]
         ELSE IF images.disk[ImagePath] # "absent"
         THEN [images EXCEPT !.results[ImagePath] = "cached", !.si = @ + 1]
         ELSE [images EXCEPT !.at = "get"]
    /\ UNCHANGED <<service, fx, module>>

\* download_image, lines 52-54: the request is sent, and answered or not
DownloadGet ==
    /\ images.at = "get"
    /\ \E answered \in BOOLEAN :
         images' = [images EXCEPT !.requested = @ \cup {ImagePath},
                                  !.at = IF answered THEN "status" ELSE "except",
                                  !.exc = IF answered THEN "none" ELSE "request"]
    /\ UNCHANGED <<service, fx, module>>

\* download_image, line 55: raise_for_status
DownloadStatus ==
    /\ images.at = "status"
    /\ \E ok \in BOOLEAN :
         images' = [images EXCEPT !.at = IF ok THEN "open" ELSE "except",
                                  !.exc = IF ok THEN "none" ELSE "http"]
    /\ UNCHANGED <<service, fx, module>>

\* download_image, line 58: open(local_path, 'wb') creates the file, empty;
\* the body has one or more chunks
DownloadOpen ==
    /\ images.at = "open"
    /\ \E n \in 1..MaxChunks :
         images' = [images EXCEPT !.disk[ImagePath] = "partial", !.left = n,
                                  !.at = "write"]
    /\ UNCHANGED <<service, fx, module>>

\* download_image, lines 59-62: the next chunk is read and written, or reading
\* or writing it raises
DownloadChunk ==
    /\ images.at = "write"
    /\ images.left > 0
    /\ \E ok \in BOOLEAN :
         images' = IF ok
                   THEN [images EXCEPT !.left = @ - 1]
                   ELSE [images EXCEPT !.at = "except", !.exc = "write"]
    /\ UNCHANGED <<service, fx, module>>

\* download_image, lines 62-68, and cache_card_images, lines 107-113: the
\* last chunk is written, the file is closed, success is returned
DownloadDone ==
    /\ images.at = "write"
    /\ images.left = 0
    /\ images' = [images EXCEPT !.disk[ImagePath] = "whole",
                                !.results[ImagePath] = "downloaded",
                                !.at = "size", !.si = @ + 1]
    /\ UNCHANGED <<service, fx, module>>

DownloadExceptKeep ==
    /\ images.at = "except"
    /\ images' = [images EXCEPT !.results[ImagePath] = images.exc,
                                !.left = 0, !.exc = "none",
                                !.at = "size", !.si = @ + 1]
    /\ UNCHANGED <<service, fx, module>>

\* download_image, lines 70-78, and cache_card_images, line 115: the file is
\* removed when it is there, success False is returned with the error
DownloadExcept ==
    /\ images.at = "except"
    /\ images' = [images EXCEPT !.disk[ImagePath] = "absent",
                                !.results[ImagePath] = images.exc,
                                !.left = 0, !.exc = "none",
                                !.at = "size", !.si = @ + 1]
    /\ UNCHANGED <<service, fx, module>>

InitImages ==
    /\ files = [k \in Keys |-> "missing"]
    /\ personalities = BOT_PERSONALITIES
    /\ Start
    /\ Aside

NextImages ==
    \/ RunStart
    \/ NextCard
    \/ NextSize
    \/ DownloadGet
    \/ DownloadStatus
    \/ DownloadOpen
    \/ DownloadChunk
    \/ DownloadDone
    \/ DownloadExcept

SpecImages == InitImages /\ [][NextImages]_vars

\* ------------------------------------------------------------------ claims

\* the threads that have run pickle.load and not yet left load_bot_model
InLoader(t) == pc[t] \in {"checkset", "init", "store"}

\* the latest predict_pick_value of t ran the loader and unpickled a good file
LoadedGood(t) == result[t].op = "predict" /\ last[t].file = "good"

\* C1: every score predict_pick_value returns, on the model path and on the
\* fallback path, lies between 0 and 100.
C1_ScoreInRange ==
    \A t \in Threads :
        last[t].status = "returned" =>
            /\ 0 <= last[t].value
            /\ last[t].value <= 100 * Scale

\* a model score below 0 and a fallback score above 100 have both been clipped
C1_Witness ==
    \E t1, t2 \in Threads :
        /\ last[t1].status = "returned" /\ last[t1].path = "model"
        /\ last[t1].clip = "below"
        /\ last[t2].status = "returned" /\ last[t2].path = "fallback"
        /\ last[t2].clip = "above"

\* C2: concurrent callers that miss on the same key share one load: no two
\* of them have both unpickled the key's (good) file.
C2_SingleFlight ==
    \A t1, t2 \in Threads :
        ( /\ t1 # t2
          /\ InLoader(t1) /\ frame[t1].file = "good"
          /\ InLoader(t2) /\ frame[t2].file = "good" )
        => Key(t1) # Key(t2)

\* C3: a predict_pick_value whose artifact is missing, does not unpickle or
\* unpickles to something that is no bundle never raises and returns the
\* fallback evaluation.
C3_FailedLoadFallsBack ==
    \A t \in Threads :
        last[t].artifact \in {"missing", "corrupt", "unusable"} =>
            /\ last[t].status = "returned"
            /\ last[t].path = "fallback"

\* C4: when two callers have each loaded a different personality of the same
\* set, both calls returned and both entries are in the cache.
C4_BothEntriesKept ==
    \A t1, t2 \in Threads :
        ( /\ t1 # t2
          /\ LoadedGood(t1) /\ LoadedGood(t2)
          /\ result[t1].set_code = result[t2].set_code
          /\ result[t1].bot_personality # result[t2].bot_personality )
        => /\ result[t1].status = "returned"
           /\ result[t2].status = "returned"
           /\ Cached(result[t1].set_code, result[t1].bot_personality)
           /\ Cached(result[t2].set_code, result[t2].bot_personality)

\* C5: invalidate(set_code, bot_personality) is an operation of the service:
\* a call of it returns and leaves no entry for the key in the cache.
C5_InvalidateDropsEntry ==
    \A t \in Threads :
        result[t].op = "invalidate" =>
            /\ result[t].status = "returned"
            /\ ~result[t].cached_after

\* C6: the entry a successful load has stored is never removed and never
\* replaced by another object (so no later call loads the key again).
C6_CachedForLife ==
    [][\A k \in Keys :
          ( /\ CachedIn(loaded_models, k[1], k[2])
            /\ loaded_models[k[1]][k[2]].kind = "good" ) =>
              /\ CachedIn(loaded_models', k[1], k[2])
              /\ loaded_models'[k[1]][k[2]] = loaded_models[k[1]][k[2]]]_vars

\* C7: a predict_pick_value that reads an artifact whose columns are not the
\* extractor's, in number or in order, ends in a failure and returns no score.
C7_MismatchIsReported ==
    \A t \in Threads :
        last[t].artifact \in {"permuted", "wider"} => last[t].status = "raised"

\* C8: the rankings are every index once, by score descending, and of two
\* entries with the same score the smaller index comes first.
C8_RankOrder ==
    \A t \in Threads :
        (result[t].op \in {"rank", "choose"} /\ result[t].status = "returned") =>
            LET r == result[t].rankings
            IN  /\ Len(r) = Len(result[t].cards)
                /\ {r[p][1] : p \in 1..Len(r)} = 0..(Len(r) - 1)
                /\ \A p, q \in 1..Len(r) :
                      p < q => \/ r[p][2] > r[q][2]
                               \/ (r[p][2] = r[q][2] /\ r[p][1] < r[q][1])

\* a ranking of two candidates with the same score has been returned
C8_Witness ==
    \E t \in Threads :
        /\ result[t].op = "rank" /\ result[t].status = "returned"
        /\ Len(result[t].rankings) = 2
        /\ result[t].rankings[1][2] = result[t].rankings[2][2]

\* C9: choose_pick on an empty list of cards does not raise; it returns 0,
\* which is no index of the empty list.
C9_EmptyChoose ==
    \A t \in Threads :
        (result[t].op = "choose" /\ result[t].cards = << >>) =>
            /\ result[t].status = "returned"
            /\ result[t].value = 0
            /\ result[t].value \notin 0..(Len(result[t].cards) - 1)

\* choose_pick has been called on an empty list and has ended
C9_Witness ==
    \E t \in Threads :
        /\ result[t].op = "choose" /\ result[t].cards = << >>
        /\ result[t].status # "none"

\* the skill_level choose_pick reads for the personality of t's latest call
SkillOf(t) ==
    Get(personalities, result[t].bot_personality, personalities["silver"]).skill_level

\* C10: with skill_level 1.0 choose_pick on a non-empty list returns the
\* index ranked first, whatever random.random() draws.
C10_PerfectSkillPicksTop ==
    \A t \in Threads :
        ( /\ result[t].op = "choose" /\ result[t].status = "returned"
          /\ result[t].cards # << >>
          /\ SkillOf(t) = 10 )
        => result[t].value = result[t].rankings[1][1]

\* choose_pick with skill_level 1.0 has returned from two candidates of
\* different scores
C10_Witness ==
    \E t \in Threads :
        /\ result[t].op = "choose" /\ result[t].status = "returned"
        /\ Len(result[t].cards) = 2
        /\ SkillOf(t) = 10
        /\ result[t].rankings[1][2] > result[t].rankings[2][2]

\* C11: for a non-empty pack of n cards choose_pick returns an original index,
\* one of 0..n-1, that stands among the first min(3, n) entries of the
\* ranking of the call; with a skill level below 1 each of those min(3, n)
\* entries can be the one returned.
C11_ChooseAmongTopThree ==
    (fx.fn = "choose_pick" /\ fx.done /\ Len(fx.scores) >= 1) =>
        LET n == Len(fx.scores)
            first == {fx.rankings[j][1] : j \in 1..Min(3, n)}
        IN  /\ fx.out.status = "returned"
            /\ fx.out.value \in first
            /\ fx.out.value \in 0..(n - 1)
            /\ Cardinality(first) = Min(3, n)
            /\ \A o \in fx.possible : o.status = "returned" /\ o.value \in first
            /\ fx.config.skill_level < 10 =>
                   \A v \in first : \E o \in fx.possible : o.value = v

\* a pack of four or more, a skill level below 1, the third of the ranking
\* returned
C11_Witness ==
    /\ fx.fn = "choose_pick" /\ fx.done
    /\ Len(fx.scores) >= 4
    /\ fx.config.skill_level < 10
    /\ fx.out.value = fx.rankings[3][1]
    /\ fx.rankings[4][2] = fx.rankings[3][2]

\* C12: every vector extract_features returns has the same 11 components in
\* the same order: cost, is-creature, is-instant, is-sorcery, is-enchantment,
\* is-artifact, is-land, the rarity ordinal 1..4, power, toughness and the
\* number of distinct colors, whatever the card.
C12_FeatureVector ==
    (fx.fn = "extract_features" /\ fx.done /\ fx.out.status = "returned") =>
        LET v == fx.out.value
            card == fx.card
            tags == <<"creature", "instant", "sorcery", "enchantment", "artifact", "land">>
        IN  /\ Len(v) = 11
            /\ Len(v) = Len(ServiceFeatureOrder)
            /\ ("cmc" \in DOMAIN card /\ card.cmc.t = "number") => v[1] = card.cmc.n
            /\ \A i \in 1..6 : v[i + 1] = IF tags[i] \in fx.kinds THEN 1 ELSE 0
            /\ v[8] \in 1..4
            /\ \A i \in 1..4 :
                  ("rarity" \in DOMAIN card
                     /\ IsStr(card.rarity, <<S_common, S_uncommon, S_rare, S_mythic>>[i]))
                  => v[8] = i
            /\ ("power" \in DOMAIN card /\ IsStr(card.power, <<"1", "2">>)) => v[9] = 12
            /\ ("power" \in DOMAIN card /\ card.power.t = "number") => v[9] = card.power.n
            /\ ("toughness" \in DOMAIN card /\ IsStr(card.toughness, <<"4">>)) => v[10] = 4
            /\ ("color_identity" \in DOMAIN card /\ card.color_identity.t = "list")
                  => v[11] = Cardinality(ToSet(card.color_identity.s))

\* an artifact creature, mythic, power 12 and toughness 4, of two colors
C12_Witness ==
    /\ fx.fn = "extract_features" /\ fx.done
    /\ fx.kinds = {"artifact", "creature"}
    /\ fx.out.status = "returned"
    /\ fx.out.value = <<3, 1, 0, 0, 0, 1, 0, 4, 12, 4, 2>>

\* C13: whatever attribute of the card is missing or malformed,
\* extract_features raises nothing and gives the defaults: power and
\* toughness 0.0 when missing or not numeric, rarity ordinal 1 when missing or
\* unknown, color count 0 when the colors are missing or not a list.
C13_DefaultsNeverRaise ==
    (fx.fn = "extract_features" /\ fx.done) =>
        LET v == fx.out.value
            card == fx.card
            numeric(x) == x.t = "number" \/ (x.t = "str" /\ x.s \in {<<"6">>, <<"1", "2">>, <<"4">>})
            known(x) == \E r \in {S_common, S_uncommon, S_rare, S_mythic} : IsStr(x, r)
        IN  /\ fx.out.status = "returned"
            /\ ("power" \notin DOMAIN card \/ ~numeric(Get(card, "power", Absent))) => v[9] = 0
            /\ ("toughness" \notin DOMAIN card \/ ~numeric(Get(card, "toughness", Absent)))
                  => v[10] = 0
            /\ ("rarity" \notin DOMAIN card \/ ~known(Get(card, "rarity", Absent))) => v[8] = 1
            /\ Get(card, "color_identity", Absent).t # "list" => v[11] = 0

\* C14: with no artifact for the key the score returned is
\* clip(b * m + noise, 0, 100), b being the rarity base (common 40,
\* uncommon 55, rare 70, mythic 85, anything else 40) plus 5 for a creature
\* plus 10 for a removal keyword in the oracle text, m the personality scalar
\* (bronze 0.8, silver 0.9, gold 1.0, mythic 1.1, anything else 1.0) and the
\* noise within [-10, 10]; no skill regression, rarity bias or color bonus
\* enters it, and a common non-creature card without keyword scores within
\* [30, 50] for gold.
C14_FallbackFormula ==
    (fx.fn = "fallback_evaluation" /\ fx.done) =>
        LET rarity == Get(fx.card, "rarity", Absent)
            base == IF IsStr(rarity, S_uncommon) THEN 55
                    ELSE IF IsStr(rarity, S_rare) THEN 70
                    ELSE IF IsStr(rarity, S_mythic) THEN 85
                    ELSE 40
            b == base + (IF "creature" \in fx.kinds THEN 5 ELSE 0)
                      + (IF fx.removal THEN 10 ELSE 0)
            m == CASE fx.bot_personality = "bronze" -> 8
                   [] fx.bot_personality = "silver" -> 9
                   [] fx.bot_personality = "mythic" -> 11
                   [] OTHER -> 10
            x == b * m * (Scale \div 10) + fx.u * Scale
        IN  /\ fx.u \in -10..10
            /\ fx.out = IF x < 0 THEN 0 ELSE IF x > 100 * Scale THEN 100 * Scale ELSE x
            /\ (b = 40 /\ fx.bot_personality = "gold")
                  => (30 * Scale <= fx.out /\ fx.out <= 50 * Scale)

\* a common land without keyword for gold at the lowest noise, scored 30
C14_Witness ==
    /\ fx.fn = "fallback_evaluation" /\ fx.done
    /\ fx.bot_personality = "gold"
    /\ IsStr(Get(fx.card, "rarity", Absent), S_common)
    /\ fx.kinds = {"land"} /\ ~fx.removal
    /\ fx.u = -10
    /\ fx.out = 30 * Scale

\* the skill-regressed score of an application of _apply_personality, in
\* hundredths of a point
Regressed ==
    LET b == fx.base_score \div Scale
    IN  b * 100 + (100 - b) * (10 - fx.config.skill_level) * 3

IsMythicCard == IsStr(Get(fx.card, "rarity", Absent), S_mythic)

\* C15, as stated: for a mythic card and any base score, the noise being zero
\* and every other input the same, the adjusted score under a rare_bias above
\* 1 is strictly greater than under a rare_bias of 1.
C15_RareBiasRaises ==
    (fx.fn = "apply_personality" /\ fx.done /\ IsMythicCard
        /\ fx.z = 0 /\ fx.config.rare_bias > 10)
    => fx.out > fx.unbiased

\* C15, amended: the same for every base score whose skill-regressed score
\* base + (100 - base) * (1 - skill_level) * 0.3 is positive; when that score
\* is zero or negative a rare_bias above 1 does not raise the adjusted score.
C15_RareBiasRaisesPositive ==
    (fx.fn = "apply_personality" /\ fx.done /\ IsMythicCard
        /\ fx.z = 0 /\ fx.config.rare_bias > 10)
    => /\ Regressed > 0 => fx.out > fx.unbiased
       /\ Regressed <= 0 => fx.out <= fx.unbiased

\* a mythic card of base score 50 adjusted without noise under a rare_bias
\* above 1
C15_Witness ==
    /\ fx.fn = "apply_personality" /\ fx.done /\ IsMythicCard
    /\ fx.z = 0 /\ fx.config.rare_bias > 10
    /\ fx.base_score = 50 * Scale
    /\ fx.out > fx.unbiased

\* the colors of the card and the committed colors of an application of
\* _apply_personality, and the bonus the claims state for them
ItemColors == ToSet(Get(fx.card, "color_identity", PyList(<< >>)).s)

Committed ==
    IF "picked_colors" \in DOMAIN fx.context THEN fx.context.picked_colors ELSE {}

StatedBonus ==
    IF Committed # {} /\ ItemColors # {}
    THEN (Cardinality(Committed \cap ItemColors) * fx.config.color_commitment * Scale)
            \div (Cardinality(ItemColors) * 10)
    ELSE 0

\* C17: the adjusted score is ((base + (100 - base) * (1 - skill_level) * 0.3)
\* * r) + noise + color bonus, r being rare_bias for a rare or mythic card and
\* 1 otherwise: the rarity multiplier scales the skill-regressed score only,
\* and nothing is clipped.
C17_StepOrder ==
    (fx.fn = "apply_personality" /\ fx.done) =>
        LET rarity == Get(fx.card, "rarity", Absent)
            r == IF IsStr(rarity, S_rare) \/ IsStr(rarity, S_mythic)
                 THEN fx.config.rare_bias ELSE 10
            noise == fx.z * fx.config.randomness * 2 * Scale
        IN  1000 * (fx.out - noise - StatedBonus) = Regressed * r * Scale

\* a rare or mythic card under a rare_bias other than 1, with noise and a
\* color bonus, adjusted to a score above 100
C17_Witness ==
    /\ fx.fn = "apply_personality" /\ fx.done
    /\ IsMythicCard /\ fx.config.rare_bias # 10
    /\ fx.z # 0 /\ StatedBonus > 0
    /\ fx.out > 100 * Scale

\* C18: the color bonus is added only under a draft context with a non-empty
\* set of committed colors and for a card with a non-empty set of colors;
\* otherwise nothing is added; the bonus is
\* |committed /\ colors| / |colors| * color_commitment * 10, within
\* [0, color_commitment * 10].
C18_ColorBonus ==
    (fx.fn = "apply_personality" /\ fx.done) =>
        LET bonus == fx.out - fx.nocontext
        IN  /\ (Committed = {} \/ ItemColors = {}) => bonus = 0
            /\ (Committed # {} /\ ItemColors # {}) =>
                  /\ bonus * Cardinality(ItemColors) * 10
                        = Cardinality(Committed \cap ItemColors)
                            * fx.config.color_commitment * Scale
                  /\ 0 <= bonus
                  /\ bonus * 10 <= fx.config.color_commitment * Scale

\* a card of two colors, one of them the only committed color: half the full
\* bonus
C18_Witness ==
    /\ fx.fn = "apply_personality" /\ fx.done
    /\ Cardinality(ItemColors) = 2 /\ Cardinality(Committed) = 1
    /\ Cardinality(Committed \cap ItemColors) = 1
    /\ (fx.out - fx.nocontext) * 20 = fx.config.color_commitment * Scale

\* C16: no step of predict_pick_value, get_pick_rankings or choose_pick
\* changes the cards or the draft context of a call in progress, or removes or
\* replaces an artifact the cache holds; the one change it makes is the
\* entry a caller stores for the key it asked for.
C16_OnlyAddsEntry ==
    [][/\ \A t \in Threads :
            (frame[t].op # "none" /\ frame'[t].op # "none") =>
                /\ frame'[t].cards = frame[t].cards
                /\ frame'[t].context = frame[t].context
       /\ \A k \in Keys :
            (CachedIn(loaded_models, k[1], k[2]) /\ files[k] = "good") =>
                /\ CachedIn(loaded_models', k[1], k[2])
                /\ loaded_models'[k[1]][k[2]] = loaded_models[k[1]][k[2]]
       /\ \A k \in Keys :
            (~CachedIn(loaded_models, k[1], k[2]) /\ CachedIn(loaded_models', k[1], k[2])) =>
                \E t \in Threads : pc[t] = "store" /\ Key(t) = k]_vars

\* C19: whatever the training data, the columns the scaler and the model are
\* fitted on are, in number and order, the 11 features extract_features
\* gives and the 11 names the saved metadata lists.
C19_TrainedOnServiceFeatures ==
    (fx.fn = "train_set_bots" /\ fx.done /\ fx.out.status = "saved") =>
        /\ Len(fx.out.scaler_columns) = 11
        /\ fx.out.scaler_columns = ServiceFeatureOrder
        /\ fx.out.scaler_columns = fx.out.features

\* C20: every call of get_ml_bot_service returns the same instance, also when
\* the first calls run concurrently, and at most one MLBotService is ever
\* created.
C20_OneInstance ==
    /\ module.created <= 1
    /\ Cardinality(module.returned) <= 1

\* C21: a load that fails leaves loaded_models as it was, with no entry for
\* the key; a predict_pick_value that finds no entry for its key attempts the
\* load, whatever failed before; and a call that finds the bundle on disk
\* loads it, caches it and returns the model's score, not the fallback's.
C21_FailedLoadIsRetried ==
    [][\A t \in Threads :
          /\ (pc[t] \in {"exists", "load"} /\ pc'[t] = "idle") =>
                /\ loaded_models' = loaded_models
                /\ ~CachedIn(loaded_models', frame[t].set_code, frame[t].bot_personality)
                /\ last'[t].path = "fallback"
          /\ (pc[t] = "check" /\ ~Cached(frame[t].set_code, frame[t].bot_personality)) =>
                pc'[t] = "exists"
          /\ last'[t].file = "good" =>
                /\ last'[t].status = "returned"
                /\ last'[t].path = "model"
                /\ CachedIn(loaded_models', last'[t].set_code, last'[t].bot_personality)]_vars

\* a key whose load failed, whose bundle was then written, and for which a
\* later predict_pick_value returned the model's score
C21_Witness ==
    /\ ncalls >= 2
    /\ last["t1"].status = "returned" /\ last["t1"].path = "model"
    /\ last["t1"].file = "good"
    /\ files[<<last["t1"].set_code, last["t1"].bot_personality>>] = "good"
    /\ Cached(last["t1"].set_code, last["t1"].bot_personality)

\* C22: choose_pick on a non-empty list returns, and does not raise, for a
\* personality id the table does not have; it then returns the top-ranked
\* index on the draws of random.random() below silver's skill_level, and for
\* an id of the table on the draws below that id's skill_level; on the other
\* draws it takes the weighted choice.
C22_UnknownChoosesAsSilver ==
    (fx.fn = "choose_pick_for" /\ fx.done) =>
        LET skill == IF fx.bot_personality \in DOMAIN fx.table
                     THEN fx.table[fx.bot_personality].skill_level
                     ELSE fx.table["silver"].skill_level
        IN  /\ fx.out.status = "returned"
            /\ fx.r < skill =>
                  (fx.out.branch = "top" /\ fx.out.value = fx.rankings[1][1])
            /\ fx.r >= skill => fx.out.branch = "weighted"

\* an id the table does not have, a draw below silver's skill_level and not
\* below bronze's: the top-ranked of several cards returned
C22_Witness ==
    /\ fx.fn = "choose_pick_for" /\ fx.done
    /\ fx.bot_personality \notin DOMAIN fx.table
    /\ Len(fx.scores) >= 2
    /\ fx.r < fx.table["silver"].skill_level
    /\ fx.r >= fx.table["bronze"].skill_level
    /\ fx.out.status = "returned" /\ fx.out.branch = "top"
    /\ fx.out.value = fx.rankings[1][1]

\* the results a failed download_image gives
ImageFailures == {"request", "http", "write"}

\* a run of cache_set_images has returned
RunReturned == images.runs > 0 /\ images.at = "idle"

\* the images a run asks for: the sizes given that the card has
AskedPaths == {p \in ImagePaths : \E i \in 1..Len(images.sizes) : images.sizes[i] = p[2]}

\* C23: when a run of cache_set_images has returned, every image it asked
\* for whose file was in the cache when the run began was requested again if
\* force was True, and was reported as cached with no request sent if force
\* was False.
C23_ForceDownloadsAgain ==
    RunReturned =>
        \A p \in AskedPaths :
            images.before[p] = "whole" =>
                IF images.force
                THEN p \in images.requested
                ELSE p \notin images.requested /\ images.results[p] = "cached"

\* C24: a download_image that failed has left no file at its path, no file
\* is partial except the one download_image is writing or about to remove,
\* and a path reported as cached holds a whole file.
C24_FailedDownloadLeavesNoFile ==
    \A p \in ImagePaths :
        /\ images.results[p] \in ImageFailures => images.disk[p] = "absent"
        /\ images.disk[p] = "partial" =>
               images.at \in {"write", "except"} /\ p = ImagePath
        /\ images.results[p] = "cached" => images.disk[p] = "whole"

\* writing the chunks of an image failed in one run, and the next run, not
\* finding a file, downloaded the image
C24_Witness ==
    \E p \in ImagePaths :
        images.previous[p] = "write" /\ images.results[p] = "downloaded"

====
